---- MODULE Spec2Model ----
(***************************************************************************)
(* FCS analyzer (fcs-backend): the analysis engine of fcs_analyzer.py, the *)
(* analysis endpoint and the lender-directory reload of main.py.           *)
(*                                                                         *)
(* Conventions.  Money is in whole dollars.  A Python dict is a TLA+       *)
(* function on its keys; Python's None is the record None.  Text is a      *)
(* sequence of one-character strings.  Decimal values the code formats or  *)
(* rounds are kept as scaled integers:                                     *)
(*   factor  "%.2f"            -> hundredths          (1.49  -> 149)       *)
(*   feePercent "%.1f" percent -> tenths of a percent (4.8%  -> 48)        *)
(*   fee fractions of a profile -> thousandths        (0.02  -> 20)        *)
(*   withholding percentages, round(x, 2) -> hundredths of a percent       *)
(*   availablePayment / totalPayback of the projection -> cents            *)
(* Unrounded quotients are compared by cross-multiplication.               *)
(***************************************************************************)
EXTENDS Integers, Sequences, FiniteSets, TLC

VARIABLES
  profiles,               \* analyzer.profiles: the directory, in dict order
  rpc, loaded,            \* reload_profiles: its position, the mapping it loaded
  reloads,                \* number of reloads begun
  installed, startDir,    \* history: every mapping analyzer.profiles has held;
                          \* the mapping it held when the analysis was called
  pc,                     \* analyze: its position
  request,                \* the FCSRequest
  parsed_data, withholding_data, last_position_analysis, affordable_funding,
  scenarios, lender_profile,          \* locals of analyze_last_position
  lender_lower, items, idx,           \* locals of identify_lender
  result,                             \* what analyze returned
  exception,                          \* analyze_fcs: the exception in flight
  response                            \* analyze_fcs: the HTTP response

vars == <<profiles, rpc, loaded, reloads, installed, startDir, pc, request,
          parsed_data, withholding_data, last_position_analysis,
          affordable_funding, scenarios, lender_profile, lender_lower, items,
          idx, result, exception, response>>

reloadVars == <<profiles, rpc, loaded, reloads, installed>>
endpointVars == <<exception, response>>

None == [isNone |-> TRUE]

(***************************************************************************)
(* Arithmetic and sequence helpers                                         *)
(***************************************************************************)
Abs(x) == IF x < 0 THEN -x ELSE x

\* Python's round()/format of n/d (n >= 0, d > 0) to an integer: nearest,
\* ties to even.
RoundDiv(n, d) ==
  LET q == n \div d
      r == n % d
  IN  IF 2 * r < d THEN q
      ELSE IF 2 * r > d THEN q + 1
      ELSE IF q % 2 = 0 THEN q ELSE q + 1

\* list.sort(key=...): the stable ascending order of seq under keys
\* (keys[i] is the key of seq[i]).
Rank(keys, i) ==
  Cardinality({j \in 1..Len(keys) :
                 keys[j] < keys[i] \/ (keys[j] = keys[i] /\ j < i)}) + 1

SortedBy(seq, keys) ==
  [r \in 1..Len(seq) |-> seq[CHOOSE i \in 1..Len(seq) : Rank(keys, i) = r]]

\* seq[i:j] style prefix: the first n elements
Take(seq, n) == SubSeq(seq, 1, IF Len(seq) < n THEN Len(seq) ELSE n)

RECURSIVE Concat(_)
Concat(seqs) ==
  IF seqs = <<>> THEN <<>> ELSE Head(seqs) \o Concat(Tail(seqs))

(***************************************************************************)
(* Text: str.lower(), str.strip(), the `in` substring test                 *)
(***************************************************************************)
LowerChar(c) ==
  CASE c = "A" -> "a"
    [] c = "B" -> "b"
    [] c = "C" -> "c"
    [] OTHER   -> c

Lower(s) == [i \in 1..Len(s) |-> LowerChar(s[i])]

IsSpace(c) == c = " "

RECURSIVE LStrip(_)
LStrip(s) ==
  IF s # <<>> /\ IsSpace(Head(s)) THEN LStrip(Tail(s)) ELSE s

RECURSIVE RStrip(_)
RStrip(s) ==
  IF s # <<>> /\ IsSpace(s[Len(s)]) THEN RStrip(SubSeq(s, 1, Len(s) - 1))
  ELSE s

Strip(s) == RStrip(LStrip(s))

\* a in b
Contains(a, b) ==
  \E k \in 0..(Len(b) - Len(a)) : SubSeq(b, k + 1, k + Len(a)) = a

(***************************************************************************)
(* FCSAnalyzer.calculate_withholding                                       *)
(***************************************************************************)
\* withhold_pct = daily_rate * 21 / revenue * 100, as the numerator over
\* 5 * revenue (daily_rate = amount / 5 when weekly, amount when daily).
PctNum(pos) ==
  IF pos.frequency = "weekly" THEN pos.amount * 2100 ELSE pos.amount * 5 * 2100

\* One breakdown entry; dailyRate and monthlyPayment in cents, withholdPct in
\* hundredths of a percent.
BreakdownEntry(pos, revenue) ==
  [lender         |-> pos.lender,
   payment        |-> pos.amount,
   frequency      |-> pos.frequency,
   dailyRate      |-> IF pos.frequency = "weekly"
                      THEN RoundDiv(pos.amount * 100, 5)
                      ELSE pos.amount * 100,
   monthlyPayment |-> IF pos.frequency = "weekly"
                      THEN RoundDiv(pos.amount * 2100, 5)
                      ELSE pos.amount * 2100,
   withholdPct    |-> RoundDiv(100 * PctNum(pos), 5 * revenue)]

\* The loop of calculate_withholding from position k on; acc is
\* [total_withhold (numerator over 5 * revenue), breakdown].
RECURSIVE WithholdLoop(_, _, _, _)
WithholdLoop(positions, revenue, k, acc) ==
  IF k > Len(positions) THEN acc
  ELSE LET pos == positions[k]
       IN  IF pos.status = "active"
           THEN WithholdLoop(positions, revenue, k + 1,
                  [total_withhold |-> acc.total_withhold + PctNum(pos),
                   breakdown |-> Append(acc.breakdown,
                                        BreakdownEntry(pos, revenue))])
           ELSE WithholdLoop(positions, revenue, k + 1, acc)

\* faulty variant: the total adds up the rounded percentages
calculate_withholding_rounded(positions, revenue) ==
  LET acc == WithholdLoop(positions, revenue, 1,
                          [total_withhold |-> 0, breakdown |-> <<>>])
      RECURSIVE Sum(_)
      Sum(b) == IF b = <<>> THEN 0 ELSE Head(b).withholdPct + Sum(Tail(b))
  IN  [total     |-> Sum(acc.breakdown),
       breakdown |-> acc.breakdown]

calculate_withholding(positions, revenue) ==
  LET acc == WithholdLoop(positions, revenue, 1,
                          [total_withhold |-> 0, breakdown |-> <<>>])
  IN  [total     |-> RoundDiv(100 * acc.total_withhold, 5 * revenue),
       breakdown |-> acc.breakdown]

(***************************************************************************)
(* FCSAnalyzer.analyze_last_position, up to the generated scenarios        *)
(***************************************************************************)
\* range(lo, hi): lo, lo + 1, ..., hi - 1, scaled by inc from base
Window(base, inc, lo, hi) ==
  [k \in 1..(hi - lo) |-> base + (lo + k - 1) * inc]

get_possible_clean_amounts(amount) ==
  LET possibilities ==
        IF amount < 25000
        THEN Window((amount \div 5000) * 5000, 5000, -1, 4)
        ELSE IF amount < 100000
        THEN Window((amount \div 10000) * 10000, 10000, -1, 4)
        ELSE IF amount < 250000
        THEN Window((amount \div 25000) * 25000, 25000, -1, 3)
        ELSE Window((amount \div 50000) * 50000, 50000, -1, 3)
  IN  SelectSeq(possibilities, LAMBDA p : p >= amount /\ p > 0)

\* faulty variant: fees up to 20% pass
FeeReasonableFifth(o) == 0 <= o.fee /\ 5 * o.fee <= o.original

\* 0 <= fee_percent <= 0.10 with fee_percent = fee / original
FeeReasonable(o) == 0 <= o.fee /\ 10 * o.fee <= o.original

\* fee_percent is kept as the pair fee / original
originals_with_fees(deposit_amount) ==
  LET withFee(orig) == [original |-> orig, fee |-> orig - deposit_amount]
      possible == get_possible_clean_amounts(deposit_amount)
  IN  SelectSeq([k \in 1..Len(possible) |-> withFee(possible[k])],
                FeeReasonable)

score_fee(o) ==
  IF 3 * o.original <= 100 * o.fee /\ 100 * o.fee <= 5 * o.original THEN 1
  ELSE IF 0 <= o.fee /\ 100 * o.fee <= 2 * o.original THEN 2
  ELSE IF 6 * o.original <= 100 * o.fee /\ 100 * o.fee <= 10 * o.original
  THEN 3
  ELSE 4

sorted_originals(deposit_amount) ==
  LET owf == originals_with_fees(deposit_amount)
  IN  SortedBy(owf, [k \in 1..Len(owf) |-> score_fee(owf[k])])

\* range(10, 72, 2) and range(60, 230, 10)
terms(frequency) ==
  IF frequency = "weekly" THEN [k \in 1..31 |-> 8 + 2 * k]
  ELSE [k \in 1..17 |-> 50 + 10 * k]

\* factor = total_payback / original, compared unrounded
_determine_likelihood(total_payback, original) ==
  LET f == 100 * total_payback
  IN  IF Abs(f - 149 * original) < original THEN "most-likely"
      ELSE IF 142 * original <= f /\ f <= 155 * original THEN "realistic"
      ELSE IF 130 * original <= f /\ f <= 141 * original THEN "possible-low"
      ELSE IF 156 * original <= f /\ f <= 160 * original THEN "possible-high"
      ELSE "unlikely"

\* faulty variant: strict bounds
FactorRealisticStrict(payment, term, original) ==
  /\ 120 * original < 100 * payment * term
  /\ 100 * payment * term < 160 * original

\* 1.20 <= factor <= 1.60
FactorRealistic(payment, term, original) ==
  /\ 120 * original <= 100 * payment * term
  /\ 100 * payment * term <= 160 * original

Scenario(o, term, deposit_amount, payment, frequency) ==
  [term            |-> term,
   termUnit        |-> IF frequency = "weekly" THEN "weeks" ELSE "days",
   payment         |-> payment,
   frequency       |-> frequency,
   originalFunding |-> o.original,
   deposit         |-> deposit_amount,
   fee             |-> o.fee,
   feePercent      |-> RoundDiv(1000 * o.fee, o.original),
   totalPayback    |-> payment * term,
   factor          |-> RoundDiv(100 * payment * term, o.original),
   likelihood      |-> _determine_likelihood(payment * term, o.original)]

generate_scenarios(deposit_amount, payment, frequency) ==
  LET origs == sorted_originals(deposit_amount)
      ts == terms(frequency)
      kept(o) == SelectSeq(ts, LAMBDA t : FactorRealistic(payment, t, o.original))
      forOrig(o) == [k \in 1..Len(kept(o)) |->
                       Scenario(o, kept(o)[k], deposit_amount, payment, frequency)]
  IN  Concat([k \in 1..Len(origs) |-> forOrig(origs[k])])

(***************************************************************************)
(* FCSAnalyzer._prioritize_with_lender_knowledge                           *)
(***************************************************************************)
default_profile(frequency) ==
  IF frequency = "weekly"
  THEN [typical_factor       |-> 145,
        factor_range         |-> <<135, 155>>,
        typical_terms_weekly |-> <<40, 42, 44, 46, 48, 50>>,
        typical_terms_daily  |-> <<>>,
        typical_fee_range    |-> <<20, 80>>]
  ELSE [typical_factor       |-> 145,
        factor_range         |-> <<135, 155>>,
        typical_terms_weekly |-> <<>>,
        typical_terms_daily  |-> <<100, 110, 120, 130, 140>>,
        typical_fee_range    |-> <<50, 100>>]

\* profile.get('typical_factor', 1.45)
TypicalFactor(profile) ==
  IF "typical_factor" \in DOMAIN profile THEN profile.typical_factor ELSE 145

\* profile[f'typical_terms_{frequency}']
TypicalTerms(profile, frequency) ==
  IF frequency = "weekly" THEN profile.typical_terms_weekly
  ELSE profile.typical_terms_daily

\* the term match: exact, else within 4 of the closest typical term
TermScore(term, typical_terms) ==
  IF \E k \in 1..Len(typical_terms) : typical_terms[k] = term THEN 25
  ELSE IF typical_terms # <<>>
          /\ \E k \in 1..Len(typical_terms) :
               /\ \A j \in 1..Len(typical_terms) :
                    Abs(typical_terms[k] - term) <= Abs(typical_terms[j] - term)
               /\ Abs(term - typical_terms[k]) <= 4
  THEN 15
  ELSE 0

\* float(scenario['factor']) is the formatted factor; float(feePercent) / 100
\* is the formatted fee in thousandths
IntelligenceScore(scenario, profile, frequency) ==
  (IF profile.factor_range[1] <= scenario.factor
      /\ scenario.factor <= profile.factor_range[2] THEN 20 ELSE 0)
  + (IF Abs(scenario.factor - TypicalFactor(profile)) < 5 THEN 30 ELSE 0)
  + TermScore(scenario.term, TypicalTerms(profile, frequency))
  + (IF profile.typical_fee_range[1] <= scenario.feePercent
        /\ scenario.feePercent <= profile.typical_fee_range[2] THEN 10 ELSE 0)

UpgradedLikelihood(score, likelihood) ==
  IF score >= 60 /\ likelihood \notin {"most-likely", "realistic"}
  THEN "realistic"
  ELSE IF score >= 40 /\ likelihood = "unlikely" THEN "possible-low"
  ELSE likelihood

\* scenarios.sort(key=lambda x: -x.get('intelligenceScore', 0))
SortByScore(scored) ==
  SortedBy(scored, [k \in 1..Len(scored) |-> -scored[k].intelligenceScore])

_prioritize_with_lender_knowledge(scens, matched, frequency) ==
  LET profile == IF matched = None THEN default_profile(frequency)
                 ELSE matched
      scoreOf(s) == IntelligenceScore(s, profile, frequency)
      scored == [k \in 1..Len(scens) |->
                   [x \in DOMAIN scens[k] \cup {"intelligenceScore"} |->
                      IF x = "intelligenceScore" THEN scoreOf(scens[k])
                      ELSE IF x = "likelihood"
                      THEN UpgradedLikelihood(scoreOf(scens[k]),
                                              scens[k].likelihood)
                      ELSE scens[k][x]]]
  IN  SortByScore(scored)

(***************************************************************************)
(* analyze_last_position, after the lender is resolved                     *)
(***************************************************************************)
\* Remove duplicates by term, keeping the first
DedupByTerm(scens) ==
  LET first == {i \in 1..Len(scens) :
                  \A j \in 1..(i - 1) : scens[j].term # scens[i].term}
      nth(r) == CHOOSE i \in first :
                  Cardinality({j \in first : j < i}) = r - 1
  IN  [r \in 1..Cardinality(first) |-> scens[nth(r)]]

\* unique_scenarios.sort(key=lambda x: x['term'])
SortByTerm(scens) ==
  SortedBy(scens, [k \in 1..Len(scens) |-> scens[k].term])

\* faulty variant: the final sort by term is missing
unique_scenarios_unsorted(scens) == DedupByTerm(scens)

unique_scenarios(scens) == SortByTerm(DedupByTerm(scens))

\* the dict returned by analyze_last_position
LastPositionAnalysis(scens, matched, deposit, frequency) ==
  [scenarios     |-> Take(unique_scenarios(
                       _prioritize_with_lender_knowledge(scens, matched,
                                                         frequency)), 10),
   lenderProfile |-> matched,
   deposit       |-> deposit]

(***************************************************************************)
(* FCSAnalyzer.calculate_affordable_funding                                *)
(***************************************************************************)
\* available_payment = additional_withhold / 100 * revenue / 21 (* 5 weekly),
\* as the numerator over 100 * 21 dollars, i.e. over 21 cents
AvailableNum(additional_withhold, revenue, frequency) ==
  IF frequency = "weekly" THEN additional_withhold * revenue * 5
  ELSE additional_withhold * revenue

calculate_affordable_funding(additional_withhold, revenue, selected_scenario, frequency) ==
  LET num == AvailableNum(additional_withhold, revenue, frequency)
      term == selected_scenario.term
      factor == selected_scenario.factor
  IN  [availablePayment   |-> RoundDiv(num, 21),
       frequency          |-> frequency,
       term               |-> term,
       termUnit           |-> selected_scenario.termUnit,
       factor             |-> factor,
       totalPayback       |-> RoundDiv(num * term, 21),
       affordableFunding  |-> RoundDiv(num * term, 21 * factor),
       additionalWithhold |-> additional_withhold]

(***************************************************************************)
(* FCSAnalyzer.parse_fcs.  A report is given by what the patterns of       *)
(* parse_fcs find in its text: revenue_match (None, or the amount after    *)
(* "Average True Revenue:"), last_deposit_match (None, or the groups of    *)
(* the "Last MCA Deposit" pattern) and position_matches (the groups of     *)
(* each "Position n:" block).                                              *)
(***************************************************************************)
parse_fcs(report) ==
  LET keys == {"lastDeposit", "mcaPositions"}
                \cup (IF report.revenue_match = None THEN {}
                      ELSE {"avgRevenue"})
      m == report.last_deposit_match
  IN  [k \in keys |->
         CASE k = "avgRevenue"   -> report.revenue_match.amount
           [] k = "lastDeposit"  ->
                IF m = None THEN None
                ELSE [amount    |-> m.amount,
                      lender    |-> Strip(m.lender),
                      payment   |-> m.payment,
                      frequency |-> m.frequency]
           [] k = "mcaPositions" -> report.position_matches]

\* not parsed_data.get('avgRevenue')
RevenueMissing(d) == ~("avgRevenue" \in DOMAIN d /\ d["avgRevenue"] # 0)

\* [p for p in parsed_data.get('mcaPositions', []) if p['status'] == 'active']
active_positions(d) ==
  SelectSeq(d["mcaPositions"], LAMBDA p : p.status = "active")

(***************************************************************************)
(* Inputs                                                                  *)
(***************************************************************************)
MaxPositions == 2
MaxReloads == 2

P149 == [aliases              |-> << <<"a", "b">> >>,
         typical_factor       |-> 149,
         factor_range         |-> <<140, 155>>,
         typical_terms_weekly |-> <<48, 52>>,
         typical_terms_daily  |-> <<120>>,
         typical_fee_range    |-> <<20, 60>>]

P149Wide == [aliases              |-> << <<"a", "b", "c">>, <<"a">> >>,
             typical_factor       |-> 149,
             factor_range         |-> <<120, 160>>,
             typical_terms_weekly |-> <<20, 48>>,
             typical_terms_daily  |-> <<>>,
             typical_fee_range    |-> <<0, 100>>]

PB == [aliases              |-> << <<"b", "c">>, <<"c", "a", "b">> >>,
       typical_factor       |-> 130,
       factor_range         |-> <<120, 140>>,
       typical_terms_weekly |-> <<20, 22>>,
       typical_terms_daily  |-> <<100, 110>>,
       typical_fee_range    |-> <<0, 50>>]

\* a profile without typical_factor
PC == [aliases              |-> << <<"b">> >>,
       factor_range         |-> <<135, 160>>,
       typical_terms_weekly |-> <<56, 60, 64>>,
       typical_terms_daily  |-> <<180, 200>>,
       typical_fee_range    |-> <<40, 100>>]

Entry(key, profile) == [key |-> key, profile |-> profile]

Directories ==
  { <<>>,
    <<Entry("p149", P149), Entry("pb", PB)>>,
    <<Entry("pc", PC), Entry("wide", P149Wide)>>,
    <<Entry("pb", PB), Entry("pc", PC), Entry("p149", P149)>> }

LenderNames ==
  { <<"A", "b">>, <<"c">>, <<" ">>, <<"B", "a">> }

DepositAmounts ==
  {4800, 9500, 42000, 47500, 48750, 90000, 99999, 225000, 250000, 1000000}
Payments == {0, 350, 650, 3000, 6500, 25000}
Frequencies == {"weekly", "daily"}
Tolerances == {5, 10}

RevenueMatches == {None, [amount |-> 0], [amount |-> 110000],
                   [amount |-> 150000]}

PositionKinds ==
  { [lender |-> <<"A", "b">>, amount |-> 3000, frequency |-> "weekly",
     status |-> "active"],
    [lender |-> <<"c">>, amount |-> 300, frequency |-> "daily",
     status |-> "active"],
    [lender |-> <<"B", "a">>, amount |-> 2000, frequency |-> "weekly",
     status |-> "active"],
    [lender |-> <<"c">>, amount |-> 650, frequency |-> "daily",
     status |-> "stopped"] }

PositionLists ==
  UNION {[1..n -> PositionKinds] : n \in 0..MaxPositions}

DepositMatches ==
  [amount : DepositAmounts, lender : LenderNames, payment : Payments,
   frequency : Frequencies]

EndToEndDeposit ==
  [amount |-> 47500, lender |-> <<"A", "b">>, payment |-> 3000,
   frequency |-> "weekly"]

\* reports that vary the positions, and reports that vary the last deposit
Reports ==
  [revenue_match : RevenueMatches,
   last_deposit_match : {None, EndToEndDeposit},
   position_matches : PositionLists]
  \cup
  [revenue_match : {[amount |-> 110000], [amount |-> 150000]},
   last_deposit_match : DepositMatches,
   position_matches : {<<>>}]

\* the reports analyzed while the directory is reloaded
LiveReports ==
  [revenue_match : {[amount |-> 150000]},
   last_deposit_match : {[amount |-> 47500, lender |-> n, payment |-> 3000,
                          frequency |-> "weekly"] : n \in LenderNames}
                        \cup {None,
                              [amount |-> 42000, lender |-> <<"A", "b">>,
                               payment |-> 3000, frequency |-> "weekly"]},
   position_matches : {<<>>}]
  \cup
  [revenue_match : {None},
   last_deposit_match : {EndToEndDeposit},
   position_matches : {<<>>}]

(***************************************************************************)
(* State machine: one request to analyze_fcs of main.py, which runs        *)
(* analyze on a worker thread and turns its result into the HTTP response, *)
(* and the reload_profiles endpoint, which may run on another thread at    *)
(* any point of the call.                                                  *)
(***************************************************************************)
Init ==
  /\ profiles \in Directories
  /\ rpc = "idle"
  /\ loaded = <<>>
  /\ reloads = 0
  /\ installed = {profiles}
  /\ startDir = <<>>
  /\ pc = "idle"
  /\ request = None
  /\ parsed_data = None
  /\ withholding_data = None
  /\ last_position_analysis = None
  /\ affordable_funding = None
  /\ scenarios = <<>>
  /\ lender_profile = None
  /\ lender_lower = <<>>
  /\ items = <<>>
  /\ idx = 0
  /\ result = None
  /\ exception = None
  /\ response = None

\* analyze is called: parse_fcs
Analyze(report, tol) ==
  /\ pc = "idle"
  /\ request' = [fcs_text |-> report, additional_withhold |-> tol]
  /\ parsed_data' = parse_fcs(report)
  /\ startDir' = profiles
  /\ pc' = "parsed"
  /\ UNCHANGED endpointVars
  /\ UNCHANGED <<reloadVars, withholding_data, last_position_analysis,
                 affordable_funding, scenarios, lender_profile, lender_lower,
                 items, idx, result>>

ReturnError ==
  /\ pc = "parsed"
  /\ RevenueMissing(parsed_data)
  /\ result' = [error |-> "Could not find Average True Revenue in the report."]
  /\ pc' = "done"
  /\ UNCHANGED endpointVars
  /\ UNCHANGED <<reloadVars, startDir, request, parsed_data, withholding_data,
                 last_position_analysis, affordable_funding, scenarios,
                 lender_profile, lender_lower, items, idx>>

Withholding ==
  /\ pc = "parsed"
  /\ ~RevenueMissing(parsed_data)
  /\ withholding_data' = calculate_withholding(active_positions(parsed_data),
                                               parsed_data["avgRevenue"])
  /\ pc' = "withheld"
  /\ UNCHANGED endpointVars
  /\ UNCHANGED <<reloadVars, startDir, request, parsed_data,
                 last_position_analysis, affordable_funding, scenarios,
                 lender_profile, lender_lower, items, idx, result>>

\* parsed_data.get('lastDeposit') and payment and frequency: parse_fcs always
\* stores payment and frequency in lastDeposit, and frequency is never empty
HasPayment(d) == d["lastDeposit"] # None /\ d["lastDeposit"].payment # 0

\* analyze_last_position is entered: lines 152-246
GenerateScenarios ==
  /\ pc = "withheld"
  /\ HasPayment(parsed_data)
  /\ scenarios' = generate_scenarios(parsed_data["lastDeposit"].amount,
                                     parsed_data["lastDeposit"].payment,
                                     parsed_data["lastDeposit"].frequency)
  /\ pc' = "generated"
  /\ UNCHANGED endpointVars
  /\ UNCHANGED <<reloadVars, startDir, request, parsed_data, withholding_data,
                 last_position_analysis, affordable_funding, lender_profile,
                 lender_lower, items, idx, result>>

SkipLastPosition ==
  /\ pc = "withheld"
  /\ ~HasPayment(parsed_data)
  /\ pc' = "assemble"
  /\ UNCHANGED endpointVars
  /\ UNCHANGED <<reloadVars, startDir, request, parsed_data, withholding_data,
                 last_position_analysis, affordable_funding, scenarios,
                 lender_profile, lender_lower, items, idx, result>>

\* identify_lender is entered: self.profiles.items() reads the attribute once
IdentifyBegin ==
  /\ pc = "generated"
  /\ lender_lower' = Strip(Lower(parsed_data["lastDeposit"].lender))
  /\ items' = profiles
  /\ idx' = 1
  /\ pc' = "iterating"
  /\ UNCHANGED endpointVars
  /\ UNCHANGED <<reloadVars, startDir, request, parsed_data, withholding_data,
                 last_position_analysis, affordable_funding, scenarios,
                 lender_profile, result>>

\* faulty variant: the loop reads analyzer.profiles anew at every step
LiveItems == profiles

\* the dict view the loop of identify_lender iterates
IterItems == items

\* faulty variant: only alias in lender_lower is tested
AliasMatchesOneWay(profile, name) ==
  \E k \in 1..Len(profile.aliases) : Contains(profile.aliases[k], name)

\* any alias of the profile: alias in lender_lower or lender_lower in alias
AliasMatches(profile, name) ==
  \E k \in 1..Len(profile.aliases) :
    Contains(profile.aliases[k], name) \/ Contains(name, profile.aliases[k])

IdentifyHit ==
  /\ pc = "iterating"
  /\ idx <= Len(IterItems)
  /\ AliasMatches(IterItems[idx].profile, lender_lower)
  /\ lender_profile' = IterItems[idx].profile
  /\ pc' = "identified"
  /\ UNCHANGED endpointVars
  /\ UNCHANGED <<reloadVars, startDir, request, parsed_data, withholding_data,
                 last_position_analysis, affordable_funding, scenarios,
                 lender_lower, items, idx, result>>

IdentifyMiss ==
  /\ pc = "iterating"
  /\ idx <= Len(IterItems)
  /\ ~AliasMatches(IterItems[idx].profile, lender_lower)
  /\ idx' = idx + 1
  /\ UNCHANGED endpointVars
  /\ UNCHANGED <<reloadVars, startDir, pc, request, parsed_data,
                 withholding_data, last_position_analysis, affordable_funding,
                 scenarios, lender_profile, lender_lower, items, result>>

IdentifyNone ==
  /\ pc = "iterating"
  /\ idx > Len(IterItems)
  /\ lender_profile' = None
  /\ pc' = "identified"
  /\ UNCHANGED endpointVars
  /\ UNCHANGED <<reloadVars, startDir, request, parsed_data, withholding_data,
                 last_position_analysis, affordable_funding, scenarios,
                 lender_lower, items, idx, result>>

\* analyze_last_position, lines 250-271: prioritize, deduplicate, sort, cap
RankScenarios ==
  /\ pc = "identified"
  /\ last_position_analysis' =
       LastPositionAnalysis(scenarios, lender_profile,
                            parsed_data["lastDeposit"],
                            parsed_data["lastDeposit"].frequency)
  /\ pc' = "analyzed"
  /\ UNCHANGED endpointVars
  /\ UNCHANGED <<reloadVars, startDir, request, parsed_data, withholding_data,
                 affordable_funding, scenarios, lender_profile, lender_lower,
                 items, idx, result>>

\* best_scenario = last_position_analysis['scenarios'][0]
best_scenario(lpa) == lpa.scenarios[1]

Project ==
  /\ pc = "analyzed"
  /\ last_position_analysis.scenarios # <<>>
  /\ affordable_funding' =
       calculate_affordable_funding(request.additional_withhold,
                                    parsed_data["avgRevenue"],
                                    best_scenario(last_position_analysis),
                                    parsed_data["lastDeposit"].frequency)
  /\ pc' = "assemble"
  /\ UNCHANGED endpointVars
  /\ UNCHANGED <<reloadVars, startDir, request, parsed_data, withholding_data,
                 last_position_analysis, scenarios, lender_profile,
                 lender_lower, items, idx, result>>

NoProjection ==
  /\ pc = "analyzed"
  /\ last_position_analysis.scenarios = <<>>
  /\ pc' = "assemble"
  /\ UNCHANGED endpointVars
  /\ UNCHANGED <<reloadVars, startDir, request, parsed_data, withholding_data,
                 last_position_analysis, affordable_funding, scenarios,
                 lender_profile, lender_lower, items, idx, result>>

\* faulty variant: the aggregate record carries an error key too
AggregateWithErrorKey ==
  [businessOverview     |-> [avgRevenue |-> parsed_data["avgRevenue"]],
   withholding          |-> withholding_data,
   lastPositionAnalysis |-> last_position_analysis,
   affordableFunding    |-> affordable_funding,
   error                |-> None]

\* faulty variant: an absent analysis is returned as an empty one
AggregateEmptyAnalysis ==
  [businessOverview     |-> [avgRevenue |-> parsed_data["avgRevenue"]],
   withholding          |-> withholding_data,
   lastPositionAnalysis |-> IF last_position_analysis = None
                            THEN [scenarios |-> <<>>, lenderProfile |-> None,
                                  deposit |-> parsed_data["lastDeposit"]]
                            ELSE last_position_analysis,
   affordableFunding    |-> affordable_funding]

\* the aggregate record; the overview's other fields are copies of optional
\* parsed text and are left out
Aggregate ==
  [businessOverview     |-> [avgRevenue |-> parsed_data["avgRevenue"]],
   withholding          |-> withholding_data,
   lastPositionAnalysis |-> last_position_analysis,
   affordableFunding    |-> affordable_funding]

Return ==
  /\ pc = "assemble"
  /\ result' = Aggregate
  /\ pc' = "done"
  /\ UNCHANGED endpointVars
  /\ UNCHANGED <<reloadVars, startDir, request, parsed_data, withholding_data,
                 last_position_analysis, affordable_funding, scenarios,
                 lender_profile, lender_lower, items, idx>>

\* str(e) of the HTTPException raised at line 54, as line 64 takes it: the
\* text "<status_code>: <detail>" in the Starlette releases whose
\* HTTPException defines __str__, the empty text in the releases where it
\* does not (the exception is constructed without positional arguments)
str(e) == {<<>>, <<e.status_code, ": ", e.detail>>}

\* analyze_fcs, line 53: 'error' in result, raise HTTPException(400)
RaiseBadRequest ==
  /\ pc = "done"
  /\ "error" \in DOMAIN result
  /\ exception' = [status_code |-> 400, detail |-> result.error]
  /\ pc' = "raised"
  /\ UNCHANGED <<reloadVars, startDir, request, parsed_data, withholding_data,
                 last_position_analysis, affordable_funding, scenarios,
                 lender_profile, lender_lower, items, idx, result, response>>

\* analyze_fcs, line 56: return result
ReturnResult ==
  /\ pc = "done"
  /\ ~("error" \in DOMAIN result)
  /\ response' = [status_code |-> 200, body |-> result]
  /\ pc' = "responded"
  /\ UNCHANGED <<reloadVars, startDir, request, parsed_data, withholding_data,
                 last_position_analysis, affordable_funding, scenarios,
                 lender_profile, lender_lower, items, idx, result, exception>>

\* analyze_fcs, lines 58-64: except Exception encloses the raise of line 54,
\* and HTTPException is an Exception
ExceptException ==
  /\ pc = "raised"
  /\ \E text \in str(exception) :
       response' = [status_code |-> 500, detail |-> text]
  /\ pc' = "responded"
  /\ UNCHANGED <<reloadVars, startDir, request, parsed_data, withholding_data,
                 last_position_analysis, affordable_funding, scenarios,
                 lender_profile, lender_lower, items, idx, result, exception>>

EndpointStep ==
  \/ RaiseBadRequest
  \/ ReturnResult
  \/ ExceptException

analysisVars == <<startDir, pc, request, parsed_data, withholding_data,
                  last_position_analysis, affordable_funding, scenarios,
                  lender_profile, lender_lower, items, idx, result>>

\* reload_profiles: _load_profiles builds a new mapping from the source ...
LoadProfiles(source) ==
  /\ rpc = "idle"
  /\ reloads < MaxReloads
  /\ loaded' = source
  /\ reloads' = reloads + 1
  /\ rpc' = "loaded"
  /\ UNCHANGED <<profiles, installed, analysisVars, endpointVars>>

\* json.load raises on an unreadable source: nothing is assigned
LoadFails ==
  /\ rpc = "idle"
  /\ reloads < MaxReloads
  /\ reloads' = reloads + 1
  /\ UNCHANGED <<profiles, rpc, loaded, installed, analysisVars,
                 endpointVars>>

\* ... and the assignment to analyzer.profiles replaces the old one
SwapProfiles ==
  /\ rpc = "loaded"
  /\ profiles' = loaded
  /\ installed' = installed \cup {loaded}
  /\ loaded' = <<>>
  /\ rpc' = "idle"
  /\ UNCHANGED <<reloads, analysisVars, endpointVars>>

AnalysisStep ==
  \/ ReturnError
  \/ Withholding
  \/ GenerateScenarios
  \/ SkipLastPosition
  \/ IdentifyBegin
  \/ IdentifyHit
  \/ IdentifyMiss
  \/ IdentifyNone
  \/ RankScenarios
  \/ Project
  \/ NoProjection
  \/ Return

\* one analysis call against the directory the analyzer was constructed with
Next ==
  \/ \E report \in Reports, tol \in Tolerances : Analyze(report, tol)
  \/ AnalysisStep
  \/ EndpointStep

Spec == Init /\ [][Next]_vars

\* an analysis call while the directory is reloaded
NextLive ==
  \/ \E report \in LiveReports : Analyze(report, 10)
  \/ AnalysisStep
  \/ EndpointStep
  \/ \E source \in Directories : LoadProfiles(source)
  \/ LoadFails
  \/ SwapProfiles

SpecLive == Init /\ [][NextLive]_vars

(***************************************************************************)
(* Properties                                                              *)
(***************************************************************************)
TheDeposit == request.fcs_text.last_deposit_match
Emitted == last_position_analysis.scenarios
Analyzed == last_position_analysis # None

\* C1: every scenario emitted by analyze_last_position has factor =
\* payment x term / originalFunding within [1.20, 1.60], unrounded and as
\* formatted, and fee = originalFunding - deposit with fee percent within
\* [0, 0.10], so originalFunding is never below the deposit.
C1_FactorAndFeeInRange ==
  Analyzed =>
    \A k \in 1..Len(Emitted) :
      LET s == Emitted[k]
      IN  /\ s.payment = TheDeposit.payment
          /\ s.deposit = TheDeposit.amount
          /\ s.totalPayback = s.payment * s.term
          /\ 120 * s.originalFunding <= 100 * s.payment * s.term
          /\ 100 * s.payment * s.term <= 160 * s.originalFunding
          /\ s.factor \in 120..160
          /\ s.fee = s.originalFunding - s.deposit
          /\ 0 <= s.fee
          /\ 10 * s.fee <= s.originalFunding
          /\ s.feePercent \in 0..100
          /\ s.originalFunding >= s.deposit

\* a scenario at the 10% fee boundary and one at the 1.20 factor boundary
C1_Witness ==
  /\ Analyzed
  /\ \E k \in 1..Len(Emitted) : 10 * Emitted[k].fee = Emitted[k].originalFunding
  /\ \E k \in 1..Len(Emitted) : Emitted[k].fee = 0

\* C2: the returned scenario sequence has strictly ascending terms (so no
\* term twice) and at most 10 entries.
C2_AscendingAndCapped ==
  Analyzed =>
    /\ Len(Emitted) <= 10
    /\ \A j, k \in 1..Len(Emitted) : j < k => Emitted[j].term < Emitted[k].term

\* ten scenarios returned where more than ten distinct terms were generated,
\* some of them for more than one original funding amount
C2_Witness ==
  /\ Analyzed
  /\ Len(Emitted) = 10
  /\ Cardinality({scenarios[k].term : k \in 1..Len(scenarios)}) > 10
  /\ Len(scenarios) > Cardinality({scenarios[k].term : k \in 1..Len(scenarios)})

EndToEndCase ==
  /\ Analyzed
  /\ TheDeposit.amount = 47500
  /\ TheDeposit.payment = 3000
  /\ TheDeposit.frequency = "weekly"
  /\ lender_profile # None
  /\ "typical_factor" \in DOMAIN lender_profile
  /\ lender_profile.typical_factor = 149
  /\ \E k \in 1..Len(lender_profile.typical_terms_weekly) :
       lender_profile.typical_terms_weekly[k] = 48

\* C3 as stated: for a $47,500 deposit at $3,000 weekly from a lender whose
\* profile has typical factor 1.49 and typical weekly terms including 48, the
\* first returned scenario has term 48 and factor within 0.02 of 1.49.
C3_FirstIs48At149 ==
  EndToEndCase =>
    /\ Emitted # <<>>
    /\ Emitted[1].term = 48
    /\ Abs(Emitted[1].factor - 149) <= 2

\* C3 as amended: in that case the returned scenarios have terms 20, 22, 24,
\* 26 on original funding $50,000; the first has term 20 and factor 1.20, and
\* no scenario has term 48.
C3_FirstIs20At120 ==
  EndToEndCase =>
    /\ [k \in 1..Len(Emitted) |-> Emitted[k].term] = <<20, 22, 24, 26>>
    /\ [k \in 1..Len(Emitted) |-> Emitted[k].factor] = <<120, 132, 144, 156>>
    /\ \A k \in 1..Len(Emitted) : Emitted[k].originalFunding = 50000
    /\ Emitted[1].term = 20
    /\ Emitted[1].factor = 120
    /\ \A k \in 1..Len(Emitted) : Emitted[k].term # 48

C3_Witness == EndToEndCase /\ pc = "done" /\ result.lastPositionAnalysis = last_position_analysis

RECURSIVE SumSeq(_)
SumSeq(seq) == IF seq = <<>> THEN 0 ELSE Head(seq) + SumSeq(Tail(seq))

ActiveOfRequest ==
  SelectSeq(request.fcs_text.position_matches, LAMBDA p : p.status = "active")

\* the exact percentage of a position, as numerator over 5 * revenue
ExactPctNum(p) ==
  (IF p.frequency = "weekly" THEN p.amount ELSE 5 * p.amount) * 21 * 100

BreakdownPcts ==
  [k \in 1..Len(withholding_data.breakdown) |->
     withholding_data.breakdown[k].withholdPct]

\* C4 as stated: the total returned by calculate_withholding equals the sum
\* of the withholdPct values of its breakdown.
C4_TotalIsSumOfRounded ==
  withholding_data # None =>
    withholding_data.total = SumSeq(BreakdownPcts)

\* C4 as amended: the total is the sum of the unrounded percentages of the
\* active positions (daily rate x 21 / revenue x 100), rounded once to 2
\* decimals; each withholdPct is its position's percentage rounded to 2
\* decimals; with at most one active position the total equals the sum of
\* the withholdPct values.
C4_TotalIsRoundedSum ==
  withholding_data # None =>
    LET rev == request.fcs_text.revenue_match.amount
        act == ActiveOfRequest
    IN  /\ withholding_data.total =
             RoundDiv(100 * SumSeq([k \in 1..Len(act) |-> ExactPctNum(act[k])]),
                      5 * rev)
        /\ Len(withholding_data.breakdown) = Len(act)
        /\ \A k \in 1..Len(act) :
             BreakdownPcts[k] = RoundDiv(100 * ExactPctNum(act[k]), 5 * rev)
        /\ Len(act) <= 1 => withholding_data.total = SumSeq(BreakdownPcts)

\* two active positions whose rounded percentages do not add up to the total
C4_Witness ==
  /\ withholding_data # None
  /\ Len(withholding_data.breakdown) = 2
  /\ withholding_data.total # SumSeq(BreakdownPcts)

RevenueParsed == request.fcs_text.revenue_match # None
IsError == "error" \in DOMAIN result
AggregateKeys ==
  {"businessOverview", "withholding", "lastPositionAnalysis",
   "affordableFunding"}

TrimmedLowerName == Strip(Lower(TheDeposit.lender))

\* a occurs in b: b = pre \o a \o post
OccursIn(a, b) ==
  \E i \in 0..Len(b) : \E j \in i..Len(b) : SubSeq(b, i + 1, j) = a

\* the entry has an alias contained in the name or containing it
EntryMatches(entry, name) ==
  \E alias \in {entry.profile.aliases[k] : k \in 1..Len(entry.profile.aliases)} :
    OccursIn(alias, name) \/ OccursIn(name, alias)

\* the profile of the first matching entry of directory d, or None
FirstMatch(d, name) ==
  IF \E i \in 1..Len(d) : EntryMatches(d[i], name)
  THEN d[CHOOSE i \in 1..Len(d) :
           /\ EntryMatches(d[i], name)
           /\ \A j \in 1..(i - 1) : ~EntryMatches(d[j], name)].profile
  ELSE None

\* identify_lender has returned
Resolved == pc = "identified" \/ Analyzed

\* C6: while the directory is reloaded, an analysis call resolves its lender
\* against exactly one complete mapping that analyzer.profiles has held: what
\* it has examined so far, and the profile it ends with, are those of that
\* one mapping, never of a mixture of two mappings or of a partial one.
C6_OneSnapshot ==
  /\ installed \subseteq Directories
  /\ profiles \in installed
  /\ pc = "iterating" =>
       \E d \in installed :
         /\ idx <= Len(d) + 1
         /\ \A j \in 1..(idx - 1) : ~EntryMatches(d[j], TrimmedLowerName)
         /\ IterItems = d
  /\ Resolved =>
       \E d \in installed : lender_profile = FirstMatch(d, TrimmedLowerName)

\* the mapping was swapped while the loop of identify_lender was under way
C6_Witness ==
  /\ pc = "iterating"
  /\ idx >= 2
  /\ items # profiles
  /\ Cardinality(installed) >= 2

\* the analysis the call returns when the lender is resolved against d
AnalysisAgainst(d) ==
  LastPositionAnalysis(
    generate_scenarios(TheDeposit.amount, TheDeposit.payment,
                       TheDeposit.frequency),
    FirstMatch(d, TrimmedLowerName),
    parsed_data["lastDeposit"], TheDeposit.frequency)

\* C7: an analysis call that began before a reload swapped the mapping
\* returns what it would have returned without the reload: its lender match
\* and scenario scores are those of the mapping installed when it began.
C7_UnaffectedByReload ==
  (pc = "done" /\ ~IsError /\ result.lastPositionAnalysis # None) =>
    result.lastPositionAnalysis = AnalysisAgainst(startDir)

\* C8: the scenario the orchestrator passes to the affordability projection
\* has the maximal intelligence score of the returned sequence, and the
\* projection's term and factor are that scenario's.
C8_ProjectionUsesTopRanked ==
  affordable_funding # None =>
    \E k \in 1..Len(Emitted) :
      /\ \A j \in 1..Len(Emitted) :
           Emitted[j].intelligenceScore <= Emitted[k].intelligenceScore
      /\ affordable_funding.term = Emitted[k].term
      /\ affordable_funding.factor = Emitted[k].factor

\* C9: identify_lender returns the profile of the first directory entry, in
\* iteration order, with an alias contained in the lowercased trimmed name or
\* containing it, and None exactly when no entry has one (an empty directory
\* included).
C9_FirstAliasMatch ==
  Resolved =>
    /\ lender_lower = TrimmedLowerName
    /\ lender_profile = FirstMatch(items, TrimmedLowerName)
    /\ lender_profile = None <=>
         \A i \in 1..Len(items) : ~EntryMatches(items[i], TrimmedLowerName)

\* a later entry is returned because the name is contained in its alias,
\* after an earlier entry did not match
C9_Witness ==
  /\ Resolved
  /\ idx >= 2
  /\ lender_profile # None
  /\ \A k \in 1..Len(lender_profile.aliases) :
       ~OccursIn(lender_profile.aliases[k], TrimmedLowerName)

NoDepositParsed == TheDeposit = None

Retained == originals_with_fees(parsed_data["lastDeposit"].amount)

\* fee percent in [0.03, 0.05], [0, 0.02] or [0.06, 0.10]
InFeeBand(o) ==
  \/ 3 * o.original <= 100 * o.fee /\ 100 * o.fee <= 5 * o.original
  \/ 0 <= o.fee /\ 100 * o.fee <= 2 * o.original
  \/ 6 * o.original <= 100 * o.fee /\ 100 * o.fee <= 10 * o.original

\* C11: once the fee step of the scenario reconstruction has run, every
\* candidate original-funding amount that passed the fee filter has a fee
\* percent in one of the bands [0.03, 0.05], [0, 0.02], [0.06, 0.10], and
\* none of them gets the fallback fee score 4.
C11_RetainedInThreeBands ==
  pc = "generated" =>
    \A k \in 1..Len(Retained) :
      /\ InFeeBand(Retained[k])
      /\ score_fee(Retained[k]) # 4

\* C12: when analyze returned the missing-revenue error record, the response
\* of /api/analyze has status 400 and carries that error message; and a
\* response of status 500 is given only when analyze raised, never for a
\* record analyze returned.
C12_MissingRevenueIs400 ==
  pc = "responded" =>
    /\ IsError =>
         /\ response.status_code = 400
         /\ response.detail = result.error
    /\ response.status_code = 500 => result = None

====
